---- MODULE Spec2Model ----
(***************************************************************************)
(* State-machine model of the knowledge-base ingestion engine:             *)
(*   src/src/file_tracker.py      FileTracker (tracker table + JSON file)  *)
(*   src/src/qdrant_manager.py    QdrantManager (vector-store gateway)     *)
(*   src/src/document_processors.py  extraction and chunking               *)
(*   src/src/ingestion_manager.py IngestionManager (scan + per-file        *)
(*                                pipeline + full reset)                   *)
(* The environment (files written and removed, store calls failing, the    *)
(* tracker file failing to be written, the process being interrupted) is   *)
(* nondeterministic.                                                       *)
(***************************************************************************)
EXTENDS Integers, Sequences, FiniteSets, TLC

\* ------------------------------------------------------------------ bounds
\* At most MaxEvents things happen to the program from outside: a file is
\* written, replaced or removed, a store call or a write of the tracker file
\* fails, the process is interrupted.
MaxEvents == 2

\* Watched directories (config.py PDF_DIR, TEXT_DIR) and the files that may
\* appear in them.  Base names are unique across the two directories because
\* the scan filters on the extension.
PdfFiles == {"a.pdf"}
TxtFiles == {"b.txt"}
Files == PdfFiles \cup TxtFiles

\* What a file may hold: only blank text, text the splitter returns nothing
\* for, text of one segment, text of two segments.
Contents == {"blank", "nosplit", "one", "two"}

\* What the files present at the start hold.
InitialContents == {"one", "two"}

FileType(f) == IF f \in PdfFiles THEN "pdf" ELSE "txt"

\* ------------------------------------------------------------ data model
NoErr == "None"
MsgEmpty == "No text extracted or extracted text was empty."
MsgNoChunks == "No chunks generated from extracted text."
\* ingestion_manager.py:87: the message names both counts.
MsgMismatch(expected, got) ==
    CASE expected = 1 /\ got = 0 ->
           "Mismatch in uploaded chunks count. Expected 1, got 0."
      [] expected = 2 /\ got = 0 ->
           "Mismatch in uploaded chunks count. Expected 2, got 0."
      [] expected = 2 /\ got = 1 ->
           "Mismatch in uploaded chunks count. Expected 2, got 1."
      [] OTHER -> "Mismatch in uploaded chunks count."
MsgNoProcessor == "No processor for type"

\* models.py IngestedFileInfo; NoRec stands for "path not in the dict".
NoRec == [file_path |-> "", last_modified |-> 0, ingested_at |-> 0,
          status |-> "absent", error_message |-> NoErr]
IngestedFileInfo(p, lm, ia, st, err) ==
    [file_path |-> p, last_modified |-> lm, ingested_at |-> ia,
     status |-> st, error_message |-> err]
EmptyTable == [f \in Files |-> NoRec]

\* file_tracker.py:44  model_dump(): a record as a JSON object.  A string
\* is written as a JSON string, None as null.
JsonNull == [null |-> TRUE, str |-> ""]
JsonString(s) == [null |-> FALSE, str |-> s]
ModelDump(rec) ==
    [file_path |-> rec.file_path, last_modified |-> rec.last_modified,
     ingested_at |-> rec.ingested_at, status |-> rec.status,
     error_message |-> IF rec.error_message = NoErr THEN JsonNull
                       ELSE JsonString(rec.error_message)]

\* file_tracker.py:44-45  the JSON text written: one member per path that
\* has a record.
JsonDump(t) == [k \in {f \in Files : t[f] # NoRec} |-> ModelDump(t[k])]
EmptyJson == JsonDump(EmptyTable)

\* file_tracker.py:27  IngestedFileInfo(**v): null becomes None.
\* (Variant: the member's text is taken as it stands, null giving "".)
ParseRecordNullAsText(v) ==
    IngestedFileInfo(v.file_path, v.last_modified, v.ingested_at, v.status,
                     v.error_message.str)
ParseRecord(v) ==
    IngestedFileInfo(v.file_path, v.last_modified, v.ingested_at, v.status,
                     IF v.error_message.null THEN NoErr
                     ELSE v.error_message.str)

\* file_tracker.py:25-27  json.load and the dict comprehension.
JsonLoad(j) ==
    [f \in Files |-> IF f \in DOMAIN j THEN ParseRecord(j[f]) ELSE NoRec]

\* The tracker's JSON file: absent; not JSON at all (truncated, garbled);
\* JSON that is not a mapping of paths to records; or a written table.
FileAbsent == [kind |-> "absent", tab |-> EmptyJson]
FileCorrupt == [kind |-> "corrupt", tab |-> EmptyJson]
FileInvalid == [kind |-> "invalid", tab |-> EmptyJson]
FileTable(t) == [kind |-> "table", tab |-> JsonDump(t)]
Unreadable == {"corrupt", "invalid"}

NoFile == [exists |-> FALSE, mtime |-> 0, content |-> "blank"]
OnDisk(m, c) == [exists |-> TRUE, mtime |-> m, content |-> c]

NoPage == 0

\* ------------------------------------------------- identifier strings
\* Strings are sequences of characters here.  Base names are built from a
\* letter, the underscore and a digit; page numbers and chunk indexes have
\* one or two digits.
MaxNameLen == 3
NameChars == {"a", "_", "1"}
Names == UNION {[1..n -> NameChars] : n \in 1..MaxNameLen}
PageNumbers == {NoPage, 1, 2, 11}
ChunkIndexes == {0, 1, 2, 11, 12}

\* str(n) for n >= 0, as an f-string renders an int.
DigitChars == <<"0", "1", "2", "3", "4", "5", "6", "7", "8", "9">>
RECURSIVE Decimal(_)
Decimal(n) ==
    IF n < 10 THEN << DigitChars[n + 1] >>
    ELSE Decimal(n \div 10) \o << DigitChars[(n % 10) + 1] >>

\* qdrant_manager.py:78: metadata.get('page_number', '') inside the
\* f-string: the number, or nothing when the chunk has no page.
PageText(page_number) ==
    IF page_number = NoPage THEN << >> ELSE Decimal(page_number)

\* (Variant: the three fields are joined without a separator.)
UniqueChunkIdentifierUnseparated(source_file, page_number, chunk_index) ==
    source_file \o PageText(page_number) \o Decimal(chunk_index)
\* qdrant_manager.py:78: f"{source_file}_{page_number or ''}_{chunk_index}".
UniqueChunkIdentifier(source_file, page_number, chunk_index) ==
    source_file \o <<"_">> \o PageText(page_number) \o <<"_">>
      \o Decimal(chunk_index)

NoIdent == [source_file |-> << >>, page_number |-> NoPage, chunk_index |-> 0,
            text |-> << >>, built |-> FALSE]

VARIABLES
    disk,       \* file name -> [exists, mtime, content]
    now,        \* time.time()
    tracker,    \* FileTracker.tracker (in memory)
    persisted,  \* the file INGESTED_TRACKER_FILE
    backup,     \* what INGESTED_TRACKER_FILE + ".bak" holds
    coll,       \* "absent" | "present": the Qdrant collection
    points,     \* the points of the collection
    phase,      \* "booted" | "idle" | "pdf" | "txt" | "down" | "aborted"
    todo,       \* files of the current directory listing not yet visited
    log,        \* what the last scan step did
    scanLog,    \* <<file, status>> of the pipelines run in the current scan
    quiet,      \* scans begun since the last filesystem change (capped at 2)
    atCrash,    \* the table in memory when the process was interrupted
    events,     \* how many outside events have happened
    ident       \* a chunk's triple and the identifier string built from it

vars == <<disk, now, tracker, persisted, backup, coll, points, phase, todo, log,
          scanLog, quiet, atCrash, events, ident>>

\* The outside events one step takes: each failing call is one.
Cost(infoFail, fault, save) ==
    (IF infoFail THEN 1 ELSE 0) + (IF fault # "none" THEN 1 ELSE 0)
    + (IF save # "ok" THEN 1 ELSE 0)

ScanPhases == {"pdf", "txt"}

NoLog == [op |-> "none", file |-> "", si |-> FALSE, calls |-> <<>>,
          exc |-> NoErr, status |-> "absent", updates |-> 0, save |-> "none",
          had |-> 0, uploaded |-> 0]
NoCrash == [crashed |-> FALSE, inflight |-> "", tab |-> EmptyTable,
            durable |-> FALSE]

\* ---------------------------------------------------------- file tracker
\* file_tracker.py:78  current_last_modified > tracked_info.last_modified
ModifiedNotStrict(current, tracked) == current >= tracked
Modified(current, tracked) == current > tracked

\* file_tracker.py:73: a record that is not a success is always retried.
\* (Variant: only a failed record is.)
RetriedOnlyIfFailed(rec) == rec.status = "failed"
Retried(rec) == rec.status # "success"

\* (Variant: every existing file is ingested again.)
ShouldIngestAlways(d, rec) == d.exists
\* file_tracker.py:50-83, the value returned.
ShouldIngest(d, rec) ==
    IF ~d.exists THEN FALSE
    ELSE IF rec = NoRec THEN TRUE
    ELSE IF Retried(rec) THEN TRUE
    ELSE Modified(d.mtime, rec.last_modified)

\* (Variant: the vanished path keeps its record.)
TableAfterShouldIngestKeeps(t, f, d) == t
\* file_tracker.py:57-62, the table after the call: a vanished path loses
\* its record.
TableAfterShouldIngest(t, f, d) ==
    IF ~d.exists /\ t[f] # NoRec THEN [t EXCEPT ![f] = NoRec] ELSE t

\* file_tracker.py:59-61: _save_tracker is called only when a record was
\* removed.
ShouldIngestSaves(t, f, d) == ~d.exists /\ t[f] # NoRec

\* file_tracker.py:37-48.  outcome: "ok" the file now holds the table;
\* "keep" the write failed before the file was opened for writing;
\* "corrupt" the write failed (or was cut) after open(..., 'w') truncated it.
SaveOutcomes == {"ok", "keep", "corrupt"}
SaveTracker(t, file, outcome) ==
    CASE outcome = "ok" -> FileTable(t)
      [] outcome = "keep" -> file
      [] OTHER -> FileCorrupt

\* file_tracker.py:47-48: except Exception -> logged, nothing is raised.
SaveRaisesAlways(outcome) == outcome # "ok"
SaveRaises(outcome) == FALSE

\* file_tracker.py:18-35: the table a new FileTracker starts with.  A
\* missing file (20-22), a JSONDecodeError (28-32) and any other exception
\* (33-35) all give the empty table.
LoadTracker(file) ==
    IF file.kind = "table" THEN JsonLoad(file.tab) ELSE EmptyTable

\* file_tracker.py:28-32: only on a JSONDecodeError is the file renamed to
\* *.bak; on any other exception (33-35) it stays where it is.
FileAfterLoad(file) == IF file.kind = "corrupt" THEN FileAbsent ELSE file

\* file_tracker.py:31  what the *.bak file holds after the load.
NoBackup == "none"
BackupAfterLoad(file, bak) == IF file.kind = "corrupt" THEN file.kind ELSE bak

\* (Variant: a call without a message keeps the message of the old record.)
UpdateFileStatusMerges(t, f, d, clock, status, err) ==
    [t EXCEPT ![f] = IngestedFileInfo(f,
                        IF d.exists THEN d.mtime ELSE clock,
                        clock, status,
                        IF err = NoErr THEN t[f].error_message ELSE err)]
\* file_tracker.py:85-98: the record written for a path.
UpdateFileStatus(t, f, d, clock, status, err) ==
    [t EXCEPT ![f] = IngestedFileInfo(f,
                        IF d.exists THEN d.mtime ELSE clock,
                        clock, status, err)]

\* -------------------------------------------------- document processors
\* document_processors.py:77-101: what extract_text returns, one element
\* per section.  A text file is always one section; a PDF is one section per
\* page (the two-segment PDF has two pages of one segment each).  A section
\* is [blank, segs]: whether it is only whitespace, and how many segments
\* the splitter returns for it.
Section(blank, segs) == [blank |-> blank, segs |-> segs]
ExtractText(ftype, c) ==
    CASE c = "blank" -> IF ftype = "pdf" THEN << >>
                        ELSE << Section(TRUE, 0) >>
      [] c = "nosplit" -> << Section(FALSE, 0) >>
      [] c = "one" -> << Section(FALSE, 1) >>
      [] c = "long" -> IF ftype = "pdf"
                       THEN << Section(FALSE, 2), Section(TRUE, 0),
                               Section(FALSE, 2) >>
                       ELSE << Section(FALSE, 3) >>
      [] OTHER -> IF ftype = "pdf"
                  THEN << Section(FALSE, 1), Section(FALSE, 1) >>
                  ELSE << Section(FALSE, 2) >>

\* (Variant: only an empty list of sections counts as no text.)
NoUsableTextOnlyIfNoSections(secs) == Len(secs) = 0
\* ingestion_manager.py:66: not extracted or all sections strip to nothing.
NoUsableText(secs) == Len(secs) = 0 \/ \A i \in DOMAIN secs : secs[i].blank

\* (Variant: no chunk carries a page number.)
DocumentChunkUnpaged(f, ftype, c, multi, i, j) ==
    [text |-> <<c, i, j>>,
     source_file |-> f,
     file_type |-> ftype,
     chunk_index |-> j,
     page_number |-> NoPage]
\* document_processors.py:56-70: the chunk built for segment j (0-based) of
\* section i (1-based page number); page_number is present only for a
\* multi-page document.
DocumentChunk(f, ftype, c, multi, i, j) ==
    [text |-> <<c, i, j>>,
     source_file |-> f,
     file_type |-> ftype,
     chunk_index |-> j,
     page_number |-> IF multi THEN i ELSE NoPage]

\* document_processors.py:50-55: blank sections are skipped.
SectionChunks(f, ftype, c, multi, i, sec) ==
    IF sec.blank THEN <<>>
    ELSE [k \in 1..sec.segs |-> DocumentChunk(f, ftype, c, multi, i, k - 1)]

RECURSIVE ChunksFrom(_, _, _, _, _, _)
ChunksFrom(f, ftype, c, multi, secs, i) ==
    IF i > Len(secs) THEN <<>>
    ELSE SectionChunks(f, ftype, c, multi, i, secs[i])
         \o ChunksFrom(f, ftype, c, multi, secs, i + 1)

\* document_processors.py:38-73.  (The PDF heuristic of line 48, a single
\* section holding a blank line, does not arise for the contents modelled.)
ChunkDocument(f, ftype, c, secs) ==
    ChunksFrom(f, ftype, c, Len(secs) > 1, secs, 1)

\* --------------------------------------------------------- vector store
\* qdrant_manager.py:77-79: the point id, the hash of the identifier
\* string, kept as the triple the string is built from.
\* (Variant: the segment's text enters the id.)
PointIdFromText(ch) ==
    <<ch.source_file, ch.page_number, ch.chunk_index, ch.text>>
PointId(ch) == <<ch.source_file, ch.page_number, ch.chunk_index>>

\* (Variant: the payload is the chunk's metadata alone, without its text.)
PointStructWithoutText(ch) ==
    [id |-> PointId(ch),
     payload |-> [source_file |-> ch.source_file, file_type |-> ch.file_type,
                  chunk_index |-> ch.chunk_index,
                  page_number |-> ch.page_number, text |-> <<>>]]
\* qdrant_manager.py:81-92: the payload is the chunk's metadata and its
\* text.
PointStruct(ch) ==
    [id |-> PointId(ch),
     payload |-> [source_file |-> ch.source_file, file_type |-> ch.file_type,
                  chunk_index |-> ch.chunk_index,
                  page_number |-> ch.page_number, text |-> ch.text]]

\* The store's upsert: insert or overwrite by id; of two points of one
\* batch with the same id the later one stays.
Upsert(pts, batch) ==
    LET new == {batch[i] : i \in {k \in DOMAIN batch :
                    \A m \in DOMAIN batch : m > k => batch[m].id # batch[k].id}}
    IN {p \in pts : \A q \in new : q.id # p.id} \cup new

\* (Variant: the filter matches every point.)
DeletePointsByFileAll(pts, name) == {}
\* qdrant_manager.py:106-130: the filter matches payload.source_file.
DeletePointsByFile(pts, name) == {p \in pts : p.payload.source_file # name}

\* qdrant_manager.py:132-143: the collection's statistics, or None (ok
\* FALSE) when the collection is missing or the call fails.
NoInfo == [ok |-> FALSE, vectors_count |-> 0]
GetCollectionInfo(c, pts, fail) ==
    IF c = "present" /\ ~fail
    THEN [ok |-> TRUE, vectors_count |-> Cardinality(pts)]
    ELSE NoInfo

\* qdrant_manager.py:140-143: the exception is logged and None returned;
\* the call raises nothing.  (Variant: the exception is raised.)
GetCollectionInfoRaisesOnFailure(c, fail) == c # "present" \/ fail
GetCollectionInfoRaises(c, fail) == FALSE

PointsOf(pts, f) == {p \in pts : p.payload.source_file = f}

\* ------------------------------------------------ per-file pipeline
\* What a pipeline run hands to its finally block and to the scan loop:
\* the store calls it issued, the points it leaves, the status and message
\* for update_file_status, the exception raised inside the try (NoErr if
\* none), whether an exception leaves the method, how many times
\* update_file_status is called, and the count upload_chunks returned.
\* (Variant: the branch records its status itself and the finally block
\* records it once more.)
OutcomeRecordedTwice(calls, pts, status, err, exc, propagates) ==
    [calls |-> calls, pts |-> pts, status |-> status, err |-> err,
     exc |-> exc, propagates |-> propagates, updates |-> 2, uploaded |-> 0]
Outcome(calls, pts, status, err, exc, propagates) ==
    [calls |-> calls, pts |-> pts, status |-> status, err |-> err,
     exc |-> exc, propagates |-> propagates, updates |-> 1, uploaded |-> 0]

\* ingestion_manager.py:90-95: except Exception -> status "failed", message
\* str(e); the finally block records it and nothing leaves the method.
\* Without the except clause the finally block would record the initial
\* "failed" with no message and the exception would reach the scan loop.
OnExceptionUncaught(calls, pts, e) ==
    Outcome(calls, pts, "failed", NoErr, e, TRUE)
OnException(calls, pts, e) ==
    Outcome(calls, pts, "failed", e, e, FALSE)

\* What goes wrong in one pipeline run (at most one call raises: the first
\* exception ends the run).  "short": the embedding generator yields one
\* vector fewer than there are chunks, so zip() drops the last chunk.
Faults == {"none", "delete", "extract", "chunk", "embed", "short", "upsert"}
Processors == {"pdf", "txt"}

\* ingestion_manager.py:56-61: the old points are deleted only if the
\* record says "success" and the statistics show a non-empty collection.
NeedsDelete(rec, info) ==
    rec # NoRec /\ rec.status = "success"
    /\ info.ok /\ info.vectors_count > 0

\* qdrant_manager.py:53-104 after the embedding: the points built by the
\* zip of embeddings and chunks.
PointsToUpsert(chunks, fault) ==
    LET n == IF fault = "short" THEN Len(chunks) - 1 ELSE Len(chunks)
    IN [i \in 1..n |-> PointStruct(chunks[i])]

\* ingestion_manager.py:82: uploaded_count == len(document_chunks).
\* (Variant: any uploaded point counts as success.)
CountsMatchIfAny(uploaded, chunks) == uploaded > 0
CountsMatch(uploaded, chunks) == uploaded = Len(chunks)

\* ingestion_manager.py:80-88: steps 3 of the pipeline, embed and upsert;
\* upload_chunks returns the length of the batch it upserted in one call
\* (qdrant_manager.py:94-101).
EmbedAndUpload(calls, pts, c, chunks, fault) ==
    IF fault = "embed" THEN OnException(calls, pts, "EmbedError")
    ELSE LET batch == PointsToUpsert(chunks, fault)
             calls2 == Append(calls, "upsert")
             uploaded == Len(batch)
         IN IF fault = "upsert" \/ c # "present"
            THEN OnException(calls2, pts, "UpsertError")
            ELSE IF CountsMatch(uploaded, chunks)
                 THEN [Outcome(calls2, Upsert(pts, batch), "success",
                               NoErr, NoErr, FALSE)
                         EXCEPT !.uploaded = uploaded]
                 ELSE [Outcome(calls2, Upsert(pts, batch), "failed",
                               MsgMismatch(Len(chunks), uploaded), NoErr,
                               FALSE)
                         EXCEPT !.uploaded = uploaded]

\* ingestion_manager.py:64-78: steps 1 and 2, extract and chunk.
ExtractAndChunk(f, ftype, d, calls, pts, c, fault) ==
    IF fault = "extract" \/ ~d.exists
    THEN OnException(calls, pts, "ExtractError")
    ELSE LET secs == ExtractText(ftype, d.content)
         IN IF NoUsableText(secs)
            THEN Outcome(calls, pts, "skipped_empty", MsgEmpty, NoErr, FALSE)
            ELSE IF fault = "chunk"
            THEN OnException(calls, pts, "ChunkError")
            ELSE LET chunks == ChunkDocument(f, ftype, d.content, secs)
                 IN IF Len(chunks) = 0
                    THEN Outcome(calls, pts, "skipped_no_chunks",
                                 MsgNoChunks, NoErr, FALSE)
                    ELSE EmbedAndUpload(calls, pts, c, chunks, fault)

\* ingestion_manager.py:40-43: no processor for the file type; the method
\* records "failed" with a message itself and returns before the try.
\* (Variant: it returns without recording anything.)
NoProcessorSilent(pts) ==
    [Outcome(<<>>, pts, "failed", MsgNoProcessor, NoErr, FALSE)
       EXCEPT !.updates = 0]
NoProcessor(pts) ==
    Outcome(<<>>, pts, "failed", MsgNoProcessor, NoErr, FALSE)

\* ingestion_manager.py:32-96  _process_and_ingest_single_document, up to
\* the call of update_file_status.
ProcessAndIngest(f, ftype, rec, d, c, pts, infoFail, fault) ==
    IF ftype \notin Processors
    THEN NoProcessor(pts)
    ELSE LET info == GetCollectionInfo(c, pts, infoFail)
         IN IF NeedsDelete(rec, info)
            THEN IF fault = "delete" \/ c # "present"
                 THEN OnException(<<"delete">>, pts, "DeleteError")
                 ELSE ExtractAndChunk(f, ftype, d, <<"delete">>,
                                      DeletePointsByFile(pts, f), c, fault)
            ELSE ExtractAndChunk(f, ftype, d, <<>>, pts, c, fault)

\* ------------------------------------------------------------ the scan
\* os.listdir: the existing files of a directory, in any order.
ListDir(dir) ==
    LET S == {f \in dir : disk[f].exists}
    IN {l \in [1..Cardinality(S) -> S] :
            \A i, j \in 1..Cardinality(S) : i # j => l[i] # l[j]}

Init ==
    /\ disk \in [Files -> {NoFile} \cup {OnDisk(0, c) : c \in InitialContents}]
    /\ now = 0
    /\ tracker = EmptyTable
    /\ persisted = FileAbsent
    /\ backup = NoBackup
    /\ coll \in {"absent", "present"}
    /\ points = {}
    /\ phase = "booted"
    /\ todo = <<>>
    /\ log = NoLog
    /\ scanLog = <<>>
    /\ quiet = 0
    /\ atCrash = NoCrash
    /\ events = 0
    /\ ident = NoIdent

\* ingestion_manager.py:104-115: the collection check, then the listing of
\* PDF_DIR.  recreate_collection is reached only from the except branch; it
\* raises in turn (and the scan ends) if the store cannot be reached.
\* (Variant: the scan start recreates the collection whatever it finds.)
StartScanRecreates ==
    /\ phase \in {"booted", "idle"}
    /\ \E l \in ListDir(PdfFiles) : todo' = l
    /\ coll' = "present"
    /\ points' = {}
    /\ phase' = "pdf"
    /\ log' = NoLog
    /\ scanLog' = <<>>
    /\ quiet' = IF quiet < 2 THEN quiet + 1 ELSE 2
    /\ atCrash' = NoCrash
    /\ UNCHANGED <<ident, backup, disk, now, tracker, persisted, events>>
StartScan ==
    /\ phase \in {"booted", "idle"}
    /\ \E fail \in BOOLEAN, l \in ListDir(PdfFiles) :
         LET raised == GetCollectionInfoRaises(coll, fail)
         IN /\ coll' = IF raised /\ ~fail THEN "present" ELSE coll
            /\ points' = IF raised /\ ~fail THEN {} ELSE points
            /\ phase' = IF raised /\ fail THEN "aborted" ELSE "pdf"
            /\ todo' = IF raised /\ fail THEN <<>> ELSE l
    /\ log' = NoLog
    /\ scanLog' = <<>>
    /\ quiet' = IF quiet < 2 THEN quiet + 1 ELSE 2
    /\ atCrash' = NoCrash
    /\ UNCHANGED <<ident, backup, disk, now, tracker, persisted, events>>

\* ingestion_manager.py:121-122: the PDF loop is over, TEXT_DIR is listed.
NextDir ==
    /\ phase = "pdf" /\ todo = <<>>
    /\ phase' = "txt"
    /\ \E l \in ListDir(TxtFiles) : todo' = l
    /\ UNCHANGED <<ident, backup, disk, now, tracker, persisted, coll, points, log,
                   scanLog, quiet, atCrash, events>>

\* ingestion_manager.py:128-129: the scan returns.
EndScan ==
    /\ phase = "txt" /\ todo = <<>>
    /\ phase' = "idle"
    /\ UNCHANGED <<ident, backup, disk, now, tracker, persisted, coll, points, todo,
                   log, scanLog, quiet, atCrash, events>>

Scanning == phase \in ScanPhases /\ todo # <<>>

\* ingestion_manager.py:118 and 125: `if self.file_tracker.should_ingest(..)`
\* decides whether the pipeline runs.  (Variant: it runs for every file.)
EntryGuardOpen(si) == TRUE
EntryGuard(si) == si

\* ingestion_manager.py:118 / 125 with should_ingest returning False for a
\* file that exists: nothing is done.
ScanSkip ==
    /\ Scanning
    /\ LET f == Head(todo)
       IN /\ ~EntryGuard(ShouldIngest(disk[f], tracker[f]))
          /\ ~ShouldIngestSaves(tracker, f, disk[f])
          /\ log' = [NoLog EXCEPT !.op = "skip", !.file = f]
    /\ todo' = Tail(todo)
    /\ UNCHANGED <<ident, backup, disk, now, tracker, persisted, coll, points, phase,
                   scanLog, quiet, atCrash, events>>

\* ingestion_manager.py:118 / 125 with file_tracker.py:57-62: the listed
\* file is gone; its record is removed and the table saved.
ScanVanishedOf(saves) ==
    /\ Scanning
    /\ LET f == Head(todo)
       IN /\ ~EntryGuard(ShouldIngest(disk[f], tracker[f]))
          /\ ShouldIngestSaves(tracker, f, disk[f])
          /\ \E save \in saves :
               /\ events + Cost(FALSE, "none", save) <= MaxEvents
               /\ events' = events + Cost(FALSE, "none", save)
               /\ tracker' = TableAfterShouldIngest(tracker, f, disk[f])
               /\ persisted' = SaveTracker(tracker', persisted, save)
               /\ phase' = IF SaveRaises(save) THEN "aborted" ELSE phase
               /\ todo' = IF SaveRaises(save) THEN <<>> ELSE Tail(todo)
               /\ log' = [NoLog EXCEPT !.op = "vanish", !.file = f,
                                       !.save = save]
    /\ UNCHANGED <<ident, backup, disk, now, coll, points, scanLog, quiet, atCrash>>

ScanVanished == ScanVanishedOf(SaveOutcomes)

\* ingestion_manager.py:118-119 / 125-126: should_ingest returned True and
\* the pipeline ran to its end, update_file_status included.
ScanIngestWith(infoFails, faults, saves) ==
    /\ Scanning
    /\ LET f == Head(todo)
       IN /\ EntryGuard(ShouldIngest(disk[f], tracker[f]))
          /\ \E infoFail \in infoFails, fault \in faults, save \in saves :
               LET r == ProcessAndIngest(f, phase, tracker[f], disk[f], coll,
                                         points, infoFail, fault)
                   stop == r.propagates \/ SaveRaises(save)
               IN /\ events + Cost(infoFail, fault, save) <= MaxEvents
                  /\ events' = events + Cost(infoFail, fault, save)
                  /\ points' = r.pts
                  /\ tracker' = UpdateFileStatus(tracker, f, disk[f], now,
                                                 r.status, r.err)
                  /\ persisted' = SaveTracker(tracker', persisted, save)
                  /\ phase' = IF stop THEN "aborted" ELSE phase
                  /\ todo' = IF stop THEN <<>> ELSE Tail(todo)
                  /\ scanLog' = Append(scanLog, <<f, r.status>>)
                  /\ log' = [op |-> "ingest", file |-> f,
                             si |-> ShouldIngest(disk[f], tracker[f]),
                             calls |-> r.calls, exc |-> r.exc,
                             status |-> r.status, updates |-> r.updates,
                             save |-> save,
                             had |-> Cardinality(PointsOf(points, f)),
                             uploaded |-> r.uploaded]
    /\ UNCHANGED <<ident, backup, disk, now, coll, quiet, atCrash>>

ScanIngestOf(saves) == ScanIngestWith(BOOLEAN, Faults, saves)

ScanIngest == ScanIngestOf(SaveOutcomes)

\* ingestion_manager.py:64-96 with file_tracker.py:85-99: the pipeline of a
\* file runs with nothing failing while another program rewrites the file
\* after its text was extracted (line 65) and before update_file_status
\* reads its modification time (file_tracker.py:90): the chunks come from
\* the content read, the record takes the modification time of the rewrite.
ScanIngestDuringWrite ==
    /\ Scanning
    /\ events < MaxEvents
    /\ events' = events + 1
    /\ LET f == Head(todo)
       IN /\ EntryGuard(ShouldIngest(disk[f], tracker[f]))
          /\ \E c \in Contents :
               /\ c # disk[f].content
               /\ disk' = [disk EXCEPT ![f] = OnDisk(now + 1, c)]
          /\ LET r == ProcessAndIngest(f, phase, tracker[f], disk[f], coll,
                                       points, FALSE, "none")
             IN /\ points' = r.pts
                /\ tracker' = UpdateFileStatus(tracker, f, disk'[f], now + 1,
                                               r.status, r.err)
                /\ persisted' = SaveTracker(tracker', persisted, "ok")
                /\ scanLog' = Append(scanLog, <<f, r.status>>)
                /\ log' = [op |-> "ingest", file |-> f, si |-> TRUE,
                           calls |-> r.calls, exc |-> r.exc,
                           status |-> r.status, updates |-> r.updates,
                           save |-> "ok",
                           had |-> Cardinality(PointsOf(points, f)),
                           uploaded |-> r.uploaded]
    /\ now' = now + 1
    /\ todo' = Tail(todo)
    /\ quiet' = 0
    /\ UNCHANGED <<ident, backup, coll, phase, atCrash>>

\* File types for which IngestionManager registers no processor.
UnknownTypes == {"docx"}

\* ingestion_manager.py:32-96: _process_and_ingest_single_document called
\* on its own, outside a scan, for any path and with the file's type or an
\* unknown one.  The call counts as an outside event.
ProcessSingleDocument ==
    /\ phase \in {"booted", "idle"}
    /\ \E f \in Files, ftype \in Processors \cup UnknownTypes,
          infoFail \in BOOLEAN, fault \in Faults :
         LET r == ProcessAndIngest(f, ftype, tracker[f], disk[f], coll,
                                   points, infoFail, fault)
         IN /\ ftype \in Processors => ftype = FileType(f)
            /\ ftype \in UnknownTypes => ~infoFail /\ fault = "none"
            /\ events + 1 + Cost(infoFail, fault, "ok") <= MaxEvents
            /\ events' = events + 1 + Cost(infoFail, fault, "ok")
            /\ points' = r.pts
            /\ tracker' = IF r.updates = 0 THEN tracker
                          ELSE UpdateFileStatus(tracker, f, disk[f], now,
                                                r.status, r.err)
            /\ persisted' = IF r.updates = 0 THEN persisted
                            ELSE SaveTracker(tracker', persisted, "ok")
            /\ log' = [op |-> "direct", file |-> f, si |-> FALSE,
                       calls |-> r.calls, exc |-> r.exc,
                       status |-> r.status, updates |-> r.updates,
                       save |-> "ok",
                       had |-> Cardinality(PointsOf(points, f)),
                       uploaded |-> r.uploaded]
    /\ quiet' = 0
    /\ UNCHANGED <<ident, backup, disk, now, coll, phase, todo, scanLog, atCrash>>

\* ------------------------------------------------------- interruptions
\* What is known at an interruption: the file in the pipeline, the table in
\* memory, and whether the tracker file held that very table.
CrashedAt(f) == [crashed |-> TRUE, inflight |-> f, tab |-> tracker,
                 durable |-> persisted = FileTable(tracker)]

\* The process is interrupted between two files of a scan.
Interrupt ==
    /\ phase \in ScanPhases
    /\ events < MaxEvents
    /\ events' = events + 1
    /\ phase' = "down"
    /\ todo' = <<>>
    /\ atCrash' = CrashedAt("")
    /\ quiet' = 0
    /\ log' = NoLog
    /\ UNCHANGED <<ident, backup, disk, now, tracker, persisted, coll, points,
                   scanLog>>

\* The process is interrupted inside a file's pipeline, before
\* update_file_status: the store calls made so far have taken effect.
CrashInPipeline ==
    /\ Scanning
    /\ LET f == Head(todo)
       IN /\ ShouldIngest(disk[f], tracker[f])
          /\ \E infoFail \in BOOLEAN, fault \in Faults :
               /\ events + 1 + Cost(infoFail, fault, "ok") <= MaxEvents
               /\ events' = events + 1 + Cost(infoFail, fault, "ok")
               /\ points' = ProcessAndIngest(f, phase, tracker[f], disk[f],
                                        coll, points, infoFail, fault).pts
          /\ atCrash' = CrashedAt(f)
          /\ log' = [NoLog EXCEPT !.op = "crash", !.file = f, !.si = TRUE]
    /\ phase' = "down"
    /\ todo' = <<>>
    /\ quiet' = 0
    /\ UNCHANGED <<ident, backup, disk, now, tracker, persisted, coll, scanLog>>

\* ingestion_manager.py:46-96: the process is interrupted from the keyboard
\* while the try block of a file's pipeline runs.  KeyboardInterrupt is not
\* an Exception, so the except clause is passed over; the finally block
\* records the status and message as they stand, "failed" (line 46) and
\* None (line 47), and the interrupt then ends the process.
InterruptInsideTry ==
    /\ Scanning
    /\ LET f == Head(todo)
       IN /\ ShouldIngest(disk[f], tracker[f])
          /\ \E infoFail \in BOOLEAN, fault \in Faults :
               /\ events + 1 + Cost(infoFail, fault, "ok") <= MaxEvents
               /\ events' = events + 1 + Cost(infoFail, fault, "ok")
               /\ points' = ProcessAndIngest(f, phase, tracker[f], disk[f],
                                        coll, points, infoFail, fault).pts
          /\ tracker' = UpdateFileStatus(tracker, f, disk[f], now, "failed",
                                         NoErr)
          /\ persisted' = SaveTracker(tracker', persisted, "ok")
          /\ atCrash' = [crashed |-> TRUE, inflight |-> f, tab |-> tracker',
                         durable |-> TRUE]
          /\ log' = [NoLog EXCEPT !.op = "crash", !.file = f, !.si = TRUE,
                                  !.exc = "KeyboardInterrupt",
                                  !.status = "failed", !.updates = 1,
                                  !.save = "ok"]
    /\ phase' = "down"
    /\ todo' = <<>>
    /\ quiet' = 0
    /\ UNCHANGED <<ident, backup, disk, now, coll, scanLog>>

\* The process is interrupted inside _save_tracker (file_tracker.py:41-45),
\* after open(..., 'w') truncated the file and before json.dump completed.
CrashInSave ==
    /\ Scanning
    /\ LET f == Head(todo)
       IN /\ \/ /\ ShouldIngestSaves(tracker, f, disk[f])
                /\ events < MaxEvents
                /\ events' = events + 1
                /\ points' = points
                /\ log' = [NoLog EXCEPT !.op = "crash", !.file = f]
             \/ /\ ShouldIngest(disk[f], tracker[f])
                /\ \E infoFail \in BOOLEAN, fault \in Faults :
                     /\ events + 1 + Cost(infoFail, fault, "ok") <= MaxEvents
                     /\ events' = events + 1 + Cost(infoFail, fault, "ok")
                     /\ points' = ProcessAndIngest(f, phase, tracker[f],
                              disk[f], coll, points, infoFail, fault).pts
                /\ log' = [NoLog EXCEPT !.op = "crash", !.file = f,
                                        !.si = TRUE]
          /\ atCrash' = CrashedAt(f)
    /\ persisted' = FileCorrupt
    /\ phase' = "down"
    /\ todo' = <<>>
    /\ quiet' = 0
    /\ UNCHANGED <<ident, backup, disk, now, tracker, coll, scanLog>>

\* ingestion_manager.py:23-24: QdrantManager is built before FileTracker,
\* so the tracker file is loaded only if the connection was made (up).
\* (Variant: the tracker is built first.)
TrackerLoadedAlways(up) == TRUE
TrackerLoadedWhen(up) == up

\* qdrant_manager.py:37-39: a failed connection raises ConnectionError.
ConnectionResult(up) == IF up THEN NoErr ELSE "ConnectionError"

\* ingestion_manager.py:22-30 with qdrant_manager.py:19-39 and
\* file_tracker.py:15-35: a new process builds a new IngestionManager.
Restart ==
    /\ phase \in {"booted", "idle", "down", "aborted"}
    /\ \E up \in BOOLEAN :
         LET loaded == TrackerLoadedWhen(up)
         IN /\ ~up => events < MaxEvents
            /\ events' = IF up THEN events ELSE events + 1
            /\ tracker' = IF up THEN LoadTracker(persisted) ELSE EmptyTable
            /\ persisted' = IF loaded THEN FileAfterLoad(persisted)
                            ELSE persisted
            /\ backup' = IF loaded THEN BackupAfterLoad(persisted, backup)
                         ELSE backup
            /\ phase' = IF up THEN "booted" ELSE "aborted"
            /\ log' = [NoLog EXCEPT !.op = "load",
                                    !.exc = ConnectionResult(up)]
            /\ quiet' = IF up /\ phase \in {"booted", "idle"}
                            /\ tracker' = tracker
                        THEN quiet ELSE 0
    /\ todo' = <<>>
    /\ scanLog' = <<>>
    /\ UNCHANGED <<ident, disk, now, coll, points, atCrash>>

\* file_tracker.py:15-35: a new FileTracker, built on its own.
NewFileTracker ==
    /\ phase \in {"booted", "down"}
    /\ tracker' = LoadTracker(persisted)
    /\ persisted' = FileAfterLoad(persisted)
    /\ backup' = BackupAfterLoad(persisted, backup)
    /\ phase' = "booted"
    /\ log' = [NoLog EXCEPT !.op = "load"]
    /\ UNCHANGED <<ident, disk, now, coll, points, todo, scanLog, quiet, atCrash,
                   events>>

\* ingestion_manager.py:131-158  clear_all_ingested_data.  "recreate": the
\* store call raises; "remove": os.remove raises.
ClearOutcomes == {"ok", "recreate", "remove"}

\* ingestion_manager.py:154-156: the exception is logged and raised again.
\* (Variant: it is only logged.)
ClearRaisesNever(outcome) == FALSE
ClearRaises(outcome) == outcome # "ok"

ClearAllIngestedData ==
    /\ phase \in {"booted", "idle"}
    /\ \E outcome \in ClearOutcomes :
         /\ outcome = "remove" => persisted.kind # "absent"
         /\ outcome # "ok" => events < MaxEvents
         /\ events' = IF outcome = "ok" THEN events ELSE events + 1
         /\ coll' = IF outcome = "recreate" THEN coll ELSE "present"
         /\ points' = IF outcome = "recreate" THEN points ELSE {}
         /\ persisted' = IF outcome = "ok" THEN FileAbsent ELSE persisted
         /\ tracker' = IF outcome = "ok" THEN EmptyTable ELSE tracker
         /\ phase' = IF ClearRaises(outcome) THEN "aborted" ELSE phase
         /\ log' = [NoLog EXCEPT !.op = "clear",
                      !.exc = IF outcome = "ok" THEN NoErr ELSE outcome]
    /\ quiet' = 0
    /\ atCrash' = NoCrash
    /\ UNCHANGED <<ident, backup, disk, now, todo, scanLog>>

\* ----------------------------------------------------- the environment
\* A file is created or rewritten now.
WriteFile ==
    /\ phase \notin {"down", "aborted"}
    /\ events < MaxEvents
    /\ events' = events + 1
    /\ \E f \in Files, c \in Contents :
         disk' = [disk EXCEPT ![f] = OnDisk(now + 1, c)]
    /\ now' = now + 1
    /\ quiet' = 0
    /\ UNCHANGED <<ident, backup, tracker, persisted, coll, points, phase, todo, log,
                   scanLog, atCrash>>

\* A file is replaced by a copy that keeps an earlier modification time.
RestoreFile ==
    /\ phase \notin {"down", "aborted"}
    /\ events < MaxEvents
    /\ events' = events + 1
    /\ \E f \in Files, c \in Contents, m \in 0..now :
         /\ disk[f] # OnDisk(m, c)
         /\ disk' = [disk EXCEPT ![f] = OnDisk(m, c)]
    /\ quiet' = 0
    /\ UNCHANGED <<ident, backup, now, tracker, persisted, coll, points, phase, todo,
                   log, scanLog, atCrash>>

RemoveFile ==
    /\ phase \notin {"down", "aborted"}
    /\ events < MaxEvents
    /\ events' = events + 1
    /\ \E f \in Files :
         /\ disk[f].exists
         /\ disk' = [disk EXCEPT ![f] = NoFile]
    /\ quiet' = 0
    /\ UNCHANGED <<ident, backup, now, tracker, persisted, coll, points, phase, todo,
                   log, scanLog, atCrash>>

Next ==
    \/ StartScan
    \/ NextDir
    \/ EndScan
    \/ ScanSkip
    \/ ScanVanished
    \/ ScanIngest
    \/ Interrupt
    \/ CrashInPipeline
    \/ InterruptInsideTry
    \/ CrashInSave
    \/ Restart
    \/ ClearAllIngestedData
    \/ WriteFile
    \/ RestoreFile
    \/ RemoveFile

Spec == Init /\ [][Next]_vars

\* The program run by one process whose writes of the tracker file succeed:
\* scans, changes of the files, and store calls that fail.
NextStoreFaults ==
    \/ StartScan
    \/ NextDir
    \/ EndScan
    \/ ScanSkip
    \/ ScanVanishedOf({"ok"})
    \/ ScanIngestOf({"ok"})
    \/ WriteFile
    \/ RestoreFile
    \/ RemoveFile

SpecStoreFaults == Init /\ [][NextStoreFaults]_vars

\* The program run by one process with nothing failing: scans and changes
\* of the files.
NextNoFaults ==
    \/ StartScan
    \/ NextDir
    \/ EndScan
    \/ ScanSkip
    \/ ScanVanishedOf({"ok"})
    \/ ScanIngestWith({FALSE}, {"none"}, {"ok"})
    \/ WriteFile
    \/ RestoreFile
    \/ RemoveFile

SpecNoFaults == Init /\ [][NextNoFaults]_vars

\* The program run by one process that nothing interrupts, with every
\* failure it may meet: store calls, extraction, chunking, embedding and
\* writes of the tracker file.  A scan that has begun keeps running.
NextFailures ==
    \/ StartScan
    \/ NextDir
    \/ EndScan
    \/ ScanSkip
    \/ ScanVanished
    \/ ScanIngest
    \/ WriteFile
    \/ RestoreFile
    \/ RemoveFile

ScanStep == NextDir \/ EndScan \/ ScanSkip \/ ScanVanished \/ ScanIngest

SpecFailures == Init /\ [][NextFailures]_vars /\ WF_vars(ScanStep)

\* The per-file pipeline with every failure it handles, entered by the
\* scans and by direct calls; writes of the tracker file succeed.
NextPipeline ==
    \/ StartScan
    \/ NextDir
    \/ EndScan
    \/ ScanSkip
    \/ ScanVanishedOf({"ok"})
    \/ ScanIngestOf({"ok"})
    \/ ProcessSingleDocument
    \/ WriteFile
    \/ RemoveFile

SpecPipeline == Init /\ [][NextPipeline]_vars

\* One process scanning, nothing failing, while another program writes and
\* removes files, also in the middle of a file's pipeline.
NextConcurrentWrites ==
    \/ StartScan
    \/ NextDir
    \/ EndScan
    \/ ScanSkip
    \/ ScanVanishedOf({"ok"})
    \/ ScanIngestWith({FALSE}, {"none"}, {"ok"})
    \/ ScanIngestDuringWrite
    \/ WriteFile
    \/ RemoveFile

SpecConcurrentWrites == Init /\ [][NextConcurrentWrites]_vars

\* The identifier of qdrant_manager.py:78 on its own: a chunk with any base
\* name, page number (or none) and chunk index is handed to upload_chunks,
\* which builds its identifier string.
InitIdentifier ==
    /\ disk = [f \in Files |-> NoFile]
    /\ now = 0
    /\ tracker = EmptyTable
    /\ persisted = FileAbsent
    /\ backup = NoBackup
    /\ coll = "present"
    /\ points = {}
    /\ phase = "booted"
    /\ todo = <<>>
    /\ log = NoLog
    /\ scanLog = <<>>
    /\ quiet = 0
    /\ atCrash = NoCrash
    /\ events = 0
    /\ \E n \in Names, p \in PageNumbers, j \in ChunkIndexes :
         ident = [NoIdent EXCEPT !.source_file = n, !.page_number = p,
                                 !.chunk_index = j]

BuildIdentifier ==
    /\ ~ident.built
    /\ ident' = [ident EXCEPT
                   !.text = UniqueChunkIdentifier(ident.source_file,
                                ident.page_number, ident.chunk_index),
                   !.built = TRUE]
    /\ UNCHANGED <<disk, now, tracker, persisted, backup, coll, points, phase,
                   todo, log, scanLog, quiet, atCrash, events>>

NextIdentifier == BuildIdentifier

SpecIdentifier == InitIdentifier /\ [][NextIdentifier]_vars

\* Chunking and upload on their own: scans with nothing failing over
\* documents of every shape, among them a PDF of several pages with several
\* segments each and a page without text.
LongContents == Contents \cup {"long"}

InitChunking ==
    /\ disk \in [Files -> {OnDisk(0, c) : c \in LongContents}]
    /\ now = 0
    /\ tracker = EmptyTable
    /\ persisted = FileAbsent
    /\ backup = NoBackup
    /\ coll = "present"
    /\ points = {}
    /\ phase = "booted"
    /\ todo = <<>>
    /\ log = NoLog
    /\ scanLog = <<>>
    /\ quiet = 0
    /\ atCrash = NoCrash
    /\ events = 0
    /\ ident = NoIdent

NextChunking ==
    \/ StartScan
    \/ NextDir
    \/ EndScan
    \/ ScanSkip
    \/ ScanIngestWith({FALSE}, {"none"}, {"ok"})

SpecChunking == InitChunking /\ [][NextChunking]_vars

\* ------------------------------------------------- the tracker on its own
\* FileTracker driven through its public methods by any caller: the tracker
\* file holds anything when the process starts, the caller passes any path,
\* status and message, files come and go, writes of the tracker file may
\* fail.  A call of update_file_status counts as an outside event.
Statuses == {"success", "failed", "skipped_empty"}
Messages == {NoErr, "ExtractError"}

\* A table an earlier run left in the tracker file.
StoredTable ==
    [EmptyTable EXCEPT !["a.pdf"] =
        IngestedFileInfo("a.pdf", 0, 0, "failed", "ExtractError")]

InitTracker ==
    /\ disk \in [Files -> {NoFile} \cup {OnDisk(0, c) : c \in InitialContents}]
    /\ now = 0
    /\ tracker = EmptyTable
    /\ persisted \in {FileAbsent, FileCorrupt, FileInvalid,
                      FileTable(StoredTable)}
    /\ backup = NoBackup
    /\ coll = "present"
    /\ points = {}
    /\ phase = "down"
    /\ todo = <<>>
    /\ log = NoLog
    /\ scanLog = <<>>
    /\ quiet = 0
    /\ atCrash = NoCrash
    /\ events = 0
    /\ ident = NoIdent

\* file_tracker.py:85-99  update_file_status(path, status, error_message).
CallUpdateFileStatus ==
    /\ phase = "booted"
    /\ \E f \in Files, st \in Statuses, err \in Messages,
          save \in SaveOutcomes :
         /\ events + 1 + Cost(FALSE, "none", save) <= MaxEvents
         /\ events' = events + 1 + Cost(FALSE, "none", save)
         /\ tracker' = UpdateFileStatus(tracker, f, disk[f], now, st, err)
         /\ persisted' = SaveTracker(tracker', persisted, save)
         /\ log' = [NoLog EXCEPT !.op = "update", !.file = f, !.status = st,
                                 !.exc = err, !.updates = 1, !.save = save]
    /\ UNCHANGED <<ident, backup, disk, now, coll, points, phase, todo, scanLog,
                   quiet, atCrash>>

\* file_tracker.py:50-83  should_ingest(path).
CallShouldIngest ==
    /\ phase = "booted"
    /\ \E f \in Files, save \in SaveOutcomes :
         LET saves == ShouldIngestSaves(tracker, f, disk[f])
             cost == IF saves THEN Cost(FALSE, "none", save) ELSE 0
         IN /\ ~saves => save = "ok"
            /\ events + cost <= MaxEvents
            /\ events' = events + cost
            /\ tracker' = TableAfterShouldIngest(tracker, f, disk[f])
            /\ persisted' = IF saves
                            THEN SaveTracker(tracker', persisted, save)
                            ELSE persisted
            /\ log' = [NoLog EXCEPT !.op = "check", !.file = f,
                             !.si = ShouldIngest(disk[f], tracker[f]),
                             !.save = IF saves THEN save ELSE "none"]
    /\ UNCHANGED <<ident, backup, disk, now, coll, points, phase, todo, scanLog,
                   quiet, atCrash>>

NextTracker ==
    \/ NewFileTracker
    \/ CallUpdateFileStatus
    \/ CallShouldIngest
    \/ WriteFile
    \/ RemoveFile

SpecTracker == InitTracker /\ [][NextTracker]_vars

\* ================================================================ claims
\* A scan step on file f that returned to the loop (or left it by an
\* exception): the process was not interrupted inside it.
Stepped(f) ==
    /\ Scanning
    /\ Head(todo) = f
    /\ phase' \in ScanPhases \cup {"aborted"}
    /\ <<phase', todo'>> # <<phase, todo>>

\* The step on f returned normally and the loop goes on to the next file.
Continues == phase' = phase /\ todo' = Tail(todo)

\* C1: should_ingest(path) returns true exactly when the file exists and
\* the path has no record, or the record's status is not "success", or the
\* file's modification time is strictly greater than the recorded one.
C1_ShouldIngestDecision ==
    [][\A f \in Files :
         Stepped(f) =>
           (log'.si <=>
              /\ disk[f].exists
              /\ \/ tracker[f] = NoRec
                 \/ tracker[f].status # "success"
                 \/ disk[f].mtime > tracker[f].last_modified)]_vars

\* C1 witness: a file recorded "success" whose modification time equals the
\* recorded one was checked and should_ingest returned false.
C1_Witness ==
    \E f \in Files :
       /\ log.op = "skip" /\ log.file = f /\ ~log.si
       /\ disk[f].exists
       /\ tracker[f].status = "success"
       /\ disk[f].mtime = tracker[f].last_modified

\* C2 as stated: should_ingest on a path with a record and no file returns
\* false, removes the record from the in-memory table and from the
\* persisted table, and leaves all other records unchanged in both.
C2_VanishedRemovedEverywhere ==
    [][\A f \in Files :
         (Stepped(f) /\ ~disk[f].exists /\ tracker[f] # NoRec) =>
           /\ ~log'.si
           /\ tracker'[f] = NoRec
           /\ LoadTracker(persisted')[f] = NoRec
           /\ \A g \in Files \ {f} :
                /\ tracker'[g] = tracker[g]
                /\ LoadTracker(persisted')[g] = LoadTracker(persisted)[g]]_vars

\* C2 amended: it returns false, removes the record from the in-memory
\* table and leaves the other in-memory records unchanged; when the write
\* of the tracker file succeeds the file holds exactly the in-memory table.
C2_VanishedRemoved ==
    [][\A f \in Files :
         (Stepped(f) /\ ~disk[f].exists /\ tracker[f] # NoRec) =>
           /\ ~log'.si
           /\ tracker'[f] = NoRec
           /\ \A g \in Files \ {f} : tracker'[g] = tracker[g]
           /\ log'.save = "ok" => persisted' = FileTable(tracker')]_vars

\* C2 witness: a vanished file's record was removed and saved while another
\* file's record stayed.
C2_Witness ==
    \E f \in Files :
       /\ log.op = "vanish" /\ log.file = f /\ log.save = "ok"
       /\ tracker[f] = NoRec
       /\ persisted = FileTable(tracker)
       /\ \E g \in Files \ {f} : tracker[g] # NoRec

\* C3 as stated, for scans that find the collection in place: in the second
\* of two scans in succession with no filesystem change, no step issues an
\* upsert or a delete, the tracker and the points stay as they are, and
\* should_ingest returns false for every file recorded "success".
C3_SecondRunDoesNothing ==
    [][\A f \in Files :
         (quiet = 2 /\ coll = "present" /\ Stepped(f)) =>
           /\ log'.calls = <<>>
           /\ tracker' = tracker
           /\ points' = points
           /\ tracker[f].status = "success" => ~log'.si]_vars

\* C3 amended: in the second of two scans in succession with no filesystem
\* change since the first began, should_ingest returns false for every file
\* recorded "success", no store call and no status update is made for it,
\* and no step of the run changes the record or the points of a file
\* recorded "success".
C3_SecondRunKeepsSuccessful ==
    [][\A f \in Files :
         (quiet = 2 /\ Stepped(f)) =>
           /\ tracker[f].status = "success" =>
                /\ ~log'.si
                /\ log'.calls = <<>>
                /\ log'.updates = 0
           /\ \A g \in Files :
                tracker[g].status = "success" =>
                  /\ tracker'[g] = tracker[g]
                  /\ PointsOf(points', g) = PointsOf(points, g)]_vars

\* C3 witness: the second run checked a file recorded "success", whose
\* points are in the store, and passed it by.
C3_Witness ==
    \E f \in Files :
       /\ quiet = 2
       /\ log.op = "skip" /\ log.file = f
       /\ tracker[f].status = "success"
       /\ PointsOf(points, f) # {}

\* The points the store should hold for f after its content c was
\* ingested: one per chunk of that content.
ChunkPoints(f, ftype, c) ==
    LET chunks == ChunkDocument(f, ftype, c, ExtractText(ftype, c))
    IN {PointStruct(chunks[i]) : i \in DOMAIN chunks}

\* C4: when a file recorded "success" is ingested again while the
\* collection is non-empty, the pipeline issues exactly one delete for it,
\* before the upsert of its new chunks, and none after that upsert.
C4_OneDeleteBeforeUpsert ==
    [][\A f \in Files :
         (/\ Stepped(f) /\ log'.si
          /\ tracker[f].status = "success"
          /\ coll = "present" /\ points # {}) =>
           log'.calls \in {<<"delete">>, <<"delete", "upsert">>}]_vars

\* C5: whenever an ingestion of a document ends "success", the store holds
\* for that document exactly the points of the chunks that ingestion
\* produced, and no point of an earlier version.
C5_NoStalePoints ==
    [][\A f \in Files :
         (Stepped(f) /\ log'.status = "success") =>
           PointsOf(points', f) = ChunkPoints(f, phase, disk[f].content)]_vars

\* C6: an exception raised inside a file's pipeline is recorded for that
\* file as "failed" with the exception's message, leaves the other records
\* alone and does not leave the pipeline: the scan goes on to the next file.
C6_FailureIsolated ==
    [][\A f \in Files :
         (Stepped(f) /\ log'.exc # NoErr) =>
           /\ Continues
           /\ tracker'[f].status = "failed"
           /\ tracker'[f].error_message = log'.exc
           /\ \A g \in Files \ {f} : tracker'[g] = tracker[g]]_vars

\* C6 witness: in one scan the first document's extraction raised and was
\* recorded "failed", the second document was then ingested with "success",
\* and the scan returned.
C6_Witness ==
    \E f, g \in Files :
       /\ phase = "idle"
       /\ scanLog = << <<f, "failed">>, <<g, "success">> >>
       /\ tracker[f].status = "failed"
       /\ tracker[f].error_message = "ExtractError"
       /\ tracker[g].status = "success"

\* C7 as stated: a listed file for which should_ingest returns false gets
\* no store call and no status update, and its record and its points are
\* the same after the step as before.
C7_SkippedUntouched ==
    [][\A f \in Files :
         (Stepped(f) /\ ~log'.si) =>
           /\ log'.calls = <<>>
           /\ log'.updates = 0
           /\ tracker'[f] = tracker[f]
           /\ PointsOf(points', f) = PointsOf(points, f)]_vars

\* C7 amended: such a file gets no store call and no status update and the
\* points are unchanged; the tracker and its file are unchanged if the file
\* still exists when it is checked, and if it has vanished since the
\* listing, should_ingest removes its record.
C7_SkippedNoPipeline ==
    [][\A f \in Files :
         (Stepped(f) /\ ~log'.si) =>
           /\ log'.calls = <<>>
           /\ log'.updates = 0
           /\ points' = points
           /\ disk[f].exists => (tracker' = tracker /\ persisted' = persisted)
           /\ ~disk[f].exists => tracker'[f] = NoRec]_vars

\* C7 witness: an unmodified file recorded "success" with points in the
\* store was passed by.
C7_Witness ==
    \E f \in Files :
       /\ log.op = "skip" /\ log.file = f /\ ~log.si
       /\ log.calls = <<>> /\ log.updates = 0
       /\ tracker[f].status = "success"
       /\ PointsOf(points, f) = ChunkPoints(f, FileType(f), disk[f].content)

\* C8: a scan that starts without the collection creates it before any
\* file's pipeline runs: while files are being scanned the collection
\* exists.
C8_CollectionEnsured == phase \in ScanPhases => coll = "present"

\* C9, for interruptions that find the tracker file holding the in-memory
\* table: the table a new process loads after an interruption holds, for
\* every file but the one in the pipeline, the status recorded before it.
C9_CompletedSurviveInterrupt ==
    (phase = "booted" /\ atCrash.crashed /\ atCrash.durable) =>
       \A f \in Files \ {atCrash.inflight} :
          atCrash.tab[f] # NoRec =>
             tracker[f].status = atCrash.tab[f].status

\* C10: a failed write of the tracker file raises nothing: the step
\* returns, the scan goes on to the next file, the in-memory table holds
\* the new record (or has lost the vanished one); and should_ingest decides
\* from the in-memory table where the file's content differs from it.
C10_SaveFailureSwallowed ==
    [][\A f \in Files :
         /\ (Stepped(f) /\ log'.save \in {"keep", "corrupt"}) =>
              /\ Continues
              /\ log'.op = "ingest" =>
                   /\ tracker'[f].status = log'.status
                   /\ tracker'[f].last_modified = disk[f].mtime
              /\ log'.op = "vanish" => tracker'[f] = NoRec
              /\ persisted' \in {persisted, FileCorrupt}
         /\ (Stepped(f) /\ LoadTracker(persisted)[f] # tracker[f]) =>
              (log'.si <=> ShouldIngest(disk[f], tracker[f]))]_vars

\* C10 witness: after a failed write, a later scan of the same process
\* passed by a file whose "success" record exists only in memory.
C10_Witness ==
    \E f \in Files :
       /\ log.op = "skip" /\ log.file = f /\ ~log.si
       /\ tracker[f].status = "success"
       /\ LoadTracker(persisted)[f] = NoRec

\* A new FileTracker was built in this step.
Loads == log'.op = "load" /\ (log.op # "load" \/ phase # "booted")

\* C11: whatever unreadable content the tracker file holds (not JSON, or
\* JSON that is not a table of records), a new FileTracker starts, its
\* table is empty, and the unreadable content is kept under the backup
\* name.
C11_UnreadableBackedUp ==
    [][(Loads /\ persisted.kind \in Unreadable) =>
          /\ phase' = "booted"
          /\ tracker' = EmptyTable
          /\ backup' = persisted.kind]_vars

\* C12: saving a table and loading it gives the same table: the same paths
\* and, for each, the same path, last_modified, ingested_at, status and
\* error detail (an absent one included).
C12_SaveLoadRoundTrip ==
    LoadTracker(SaveTracker(tracker, persisted, "ok")) = tracker

\* C12 witness: a new FileTracker has just loaded the table an earlier one
\* saved, holding a record with an error detail and a record without one.
C12_Witness ==
    /\ log.op = "load"
    /\ persisted = FileTable(tracker)
    /\ \E f, g \in Files :
         /\ tracker[f] # NoRec /\ tracker[f].error_message # NoErr
         /\ tracker[g] # NoRec /\ tracker[g].error_message = NoErr

\* update_file_status was called in this step.
Updates == log'.op = "update" /\ events' > events /\ disk' = disk

\* C13: update_file_status(path, status, message) replaces the path's
\* record by one holding the given status and message, the file's
\* modification time at the call (the current time if the file is gone)
\* and the current time as ingested_at; nothing of the old record is kept,
\* no other record changes, and when the write succeeds the tracker file
\* holds the whole in-memory table.
C13_UpdateOverwrites ==
    [][Updates =>
         LET f == log'.file
         IN /\ tracker'[f] =
                  IngestedFileInfo(f,
                      IF disk[f].exists THEN disk[f].mtime ELSE now,
                      now, log'.status, log'.exc)
            /\ \A g \in Files \ {f} : tracker'[g] = tracker[g]
            /\ log'.save = "ok" => persisted' = FileTable(tracker')]_vars

\* C13 witness: a record was written without a message while another
\* path's record, which has one, stayed; the file holds both.
C13_Witness ==
    \E f, g \in Files :
       /\ f # g
       /\ log.op = "update" /\ log.file = f /\ log.save = "ok"
       /\ tracker[f].status = "success" /\ tracker[f].error_message = NoErr
       /\ tracker[g].error_message = "ExtractError"
       /\ persisted = FileTable(tracker)

\* clear_all_ingested_data was called in this step.
Clears == log'.op = "clear" /\ disk' = disk

\* C14: after clear_all_ingested_data returns normally the collection
\* exists and holds no point, the tracker file does not exist and the
\* in-memory table is empty, so should_ingest is true for every file that
\* exists; if recreating the collection fails the exception reaches the
\* caller.
C14_ClearResetsAll ==
    [][/\ (Clears /\ log'.exc = NoErr) =>
            /\ phase' = phase
            /\ coll' = "present" /\ points' = {}
            /\ persisted' = FileAbsent
            /\ tracker' = EmptyTable
            /\ \A f \in Files :
                 disk'[f].exists => ShouldIngest(disk'[f], tracker'[f])
       /\ (Clears /\ log'.exc = "recreate") => phase' = "aborted"]_vars

\* C14 witness: a scan ingested a file with success and the reset that
\* followed left no point, no tracker file and no record.
C14_Witness ==
    /\ log.op = "clear" /\ log.exc = NoErr
    /\ phase = "idle"
    /\ \E f \in Files :
         \E i \in DOMAIN scanLog : scanLog[i] = <<f, "success">>
    /\ coll = "present" /\ points = {}
    /\ persisted = FileAbsent
    /\ tracker = EmptyTable

\* C15: when the connection to the store cannot be made as the
\* IngestionManager is built, the caller gets a ConnectionError and nothing
\* else has happened: the tracker file and its backup are as they were, the
\* store is as it was, and no scan can follow.
C15_ConnectionFailureIsFatal ==
    [][(Loads /\ log'.exc = "ConnectionError") =>
          /\ phase' = "aborted" /\ todo' = <<>>
          /\ persisted' = persisted /\ backup' = backup
          /\ coll' = coll /\ points' = points
          /\ disk' = disk]_vars

\* C15 witness: the connection failed at a start that found a truncated
\* tracker file, which is still in place.
C15_Witness ==
    /\ log.op = "load" /\ log.exc = "ConnectionError"
    /\ phase = "aborted"
    /\ persisted = FileCorrupt

\* The scan moved on in this step.
ScanAdvances == phase \in ScanPhases /\ <<phase, todo>>' # <<phase, todo>>

\* What a scan has left to do: the files of the listing not yet visited,
\* the directory still to be listed, the return.
WorkLeft ==
    CASE phase = "pdf" -> Len(todo) + Cardinality(TxtFiles) + 2
      [] phase = "txt" -> Len(todo) + 1
      [] OTHER -> 0

\* The guards of the scan's steps: with the listing exhausted the next
\* directory is listed or the scan returns; otherwise the file at the head
\* of the listing is checked and, as should_ingest decides, passed by or
\* run through the pipeline.
ScanStepPossible ==
    IF todo = <<>> THEN ListDir(TxtFiles) # {}
    ELSE LET f == Head(todo)
         IN IF EntryGuard(ShouldIngest(disk[f], tracker[f]))
            THEN \E infoFail \in BOOLEAN, fault \in Faults,
                    save \in SaveOutcomes :
                    events + Cost(infoFail, fault, save) <= MaxEvents
            ELSE ShouldIngestSaves(tracker, f, disk[f]) =>
                    \E save \in SaveOutcomes :
                       events + Cost(FALSE, "none", save) <= MaxEvents

\* C16: whatever extraction, chunking, embedding, store-call and
\* tracker-write failures happen, every scan returns normally to its
\* caller: no exception leaves run_ingestion_scan, a scan that has not
\* returned can always take its next step, and every step leaves it with
\* less to do.
C16_ScanReturns ==
    /\ [](phase # "aborted")
    /\ [](phase \in ScanPhases => ScanStepPossible)
    /\ [][ScanAdvances => WorkLeft' < WorkLeft]_vars

\* C16 witness: a scan returned after a file's upsert raised and the write
\* of its record failed as well.
C16_Witness ==
    /\ phase = "idle"
    /\ log.op = "ingest" /\ log.exc = "UpsertError"
    /\ log.save \in {"keep", "corrupt"}
    /\ scanLog # <<>>

\* The scan returns in this step, and no file was written or removed since
\* it began.
ScanCompletes == phase = "txt" /\ phase' = "idle" /\ quiet >= 1

\* C17: when a scan has completed with the store reachable throughout,
\* every point of the collection belongs to a document that exists in a
\* watched directory.
C17_NoOrphanedPoints ==
    [][(ScanCompletes /\ coll = "present") =>
          \A p \in points' : disk'[p.payload.source_file].exists]_vars

\* C18: when a scan has completed, every path that has a tracker record
\* exists on disk.
C18_RecordsOnlyForExistingFiles ==
    [][ScanCompletes =>
          \A f \in Files : tracker'[f] # NoRec => disk'[f].exists]_vars

\* The three values a point's id is derived from.
KeyInputs(p) ==
    <<p.payload.source_file, p.payload.page_number, p.payload.chunk_index>>

\* C19: a point's id depends only on its source file, page number (or
\* none) and chunk index: whatever the text, the tracker, the order of the
\* files and the process, points with the same three values have the same
\* id; so a successful re-ingestion of a document whose points are already
\* those of its content leaves the document with the same points, none
\* added.
C19_KeyDeterministic ==
    [][/\ \A p \in points, q \in points' :
            KeyInputs(p) = KeyInputs(q) => p.id = q.id
       /\ \A f \in Files :
            (/\ Stepped(f) /\ log'.status = "success"
             /\ PointsOf(points, f) = ChunkPoints(f, phase, disk[f].content))
            => PointsOf(points', f) = PointsOf(points, f)]_vars

\* C19 witness: a two-segment document whose points were in the store was
\* ingested again with no delete, and the store holds its two points.
C19_Witness ==
    \E f \in Files :
       /\ log.op = "ingest" /\ log.file = f /\ log.status = "success"
       /\ log.calls = <<"upsert">>
       /\ log.had = 2
       /\ PointsOf(points, f) = ChunkPoints(f, FileType(f), disk[f].content)
       /\ Cardinality(PointsOf(points, f)) = 2

\* The chunks made from what f holds when its pipeline runs.
ChunksOf(f) ==
    ChunkDocument(f, phase, disk[f].content,
                  ExtractText(phase, disk[f].content))

Deleted(f) ==
    /\ Stepped(f)
    /\ log'.calls # <<>> /\ Head(log'.calls) = "delete"
    /\ log'.exc # "DeleteError"

\* C21: the delete the pipeline issues for a document removes every point
\* that was upserted for it (what is left for it afterwards was upserted
\* after the delete) and no point of any other document.
C21_DeleteBySourceExact ==
    [][\A f \in Files :
         Deleted(f) =>
           /\ PointsOf(points', f) \subseteq
                 ChunkPoints(f, phase, disk[f].content)
           /\ log'.calls = <<"delete">> => PointsOf(points', f) = {}
           /\ \A g \in Files \ {f} :
                PointsOf(points', g) = PointsOf(points, g)]_vars

\* C21 witness: a document that had two points was ingested again with one
\* segment; it has that one point now and the other document kept its own.
C21_Witness ==
    \E f, g \in Files :
       /\ f # g
       /\ log.op = "ingest" /\ log.file = f
       /\ log.calls = <<"delete", "upsert">> /\ log.status = "success"
       /\ log.had = 2
       /\ Cardinality(PointsOf(points, f)) = 1
       /\ PointsOf(points, g) # {}

\* A pipeline run on f came to its end in this step: inside a scan, or by a
\* direct call.
PipelineEnds(f) ==
    \/ Stepped(f) /\ log'.op = "ingest"
    \/ /\ log'.op = "direct" /\ log'.file = f
       /\ events' > events /\ disk' = disk

FinalStatuses == {"success", "failed", "skipped_empty", "skipped_no_chunks"}

\* C22: every file that enters the per-file pipeline has, when the pipeline
\* ends, a tracker record whose status is one of success, failed,
\* skipped_empty and skipped_no_chunks (the status the run arrived at), on
\* every branch, an unknown file type included.
C22_EveryRunLeavesRecord ==
    [][\A f \in Files :
         PipelineEnds(f) =>
           /\ tracker'[f] # NoRec
           /\ tracker'[f].status \in FinalStatuses
           /\ tracker'[f].status = log'.status]_vars

\* C22 witness: a file given with an unknown type has just been recorded as
\* failed for want of a processor, while a file without text is recorded
\* as skipped_empty.
C22_Witness ==
    \E f, g \in Files :
       /\ f # g
       /\ log.op = "direct" /\ log.file = f
       /\ tracker[f] # NoRec /\ tracker[f].status = "failed"
       /\ tracker[f].error_message = MsgNoProcessor
       /\ tracker[g] # NoRec /\ tracker[g].status = "skipped_empty"

ScanStarts == phase \in {"booted", "idle"} /\ phase' \in {"pdf", "aborted"}

\* C24: run_ingestion_scan never performs the reset: a collection that
\* exists when the scan starts is not recreated (its points are the same
\* after the scan-start step, and it stays in place for the whole scan),
\* the tracker file, once there, is never removed by the scan, and the
\* in-memory table is never cleared: a step changes at most the record of
\* the file it is working on, and removes that record only when the file is
\* gone.
C24_ScanNeverResets ==
    [][ScanStarts \/ ScanAdvances =>
         /\ coll = "present" => coll' = "present"
         /\ ScanStarts /\ coll = "present" => points' = points
         /\ persisted # FileAbsent => persisted' # FileAbsent
         /\ \A g \in Files :
              /\ ~(Scanning /\ Head(todo) = g) => tracker'[g] = tracker[g]
              /\ tracker[g] # NoRec /\ tracker'[g] = NoRec
                   => ~disk[g].exists]_vars

\* C24 witness: a second scan in a row has run to its end over a collection
\* that held points when it started, and points, records and tracker file
\* are all still there.
C24_Witness ==
    /\ phase = "idle" /\ quiet = 2
    /\ coll = "present" /\ points # {}
    /\ \E f \in Files : tracker[f] # NoRec /\ tracker[f].status = "success"
    /\ persisted = FileTable(tracker)

\* C25: when a file whose record says success is run through the pipeline
\* again, the delete call is left out only if the collection statistics
\* were obtained and show an empty collection: so only when the collection
\* is in place and holds no point.
C25_DeleteSkippedOnlyIfEmpty ==
    [][\A f \in Files :
         /\ Stepped(f) /\ log'.op = "ingest"
         /\ tracker[f] # NoRec /\ tracker[f].status = "success"
         /\ (log'.calls = <<>> \/ Head(log'.calls) # "delete")
         => coll = "present" /\ points = {}]_vars

\* The run on f that ended in this step had a processor and its extraction
\* returned.
Extracted(f) ==
    /\ PipelineEnds(f)
    /\ tracker'[f].error_message # MsgNoProcessor
    /\ log'.exc \notin {"DeleteError", "ExtractError"}

\* No section, or none with anything but whitespace.
NothingButBlank(secs) == \A i \in DOMAIN secs : secs[i].blank

\* C26: when extraction returns no section, or only sections that are empty
\* or whitespace, the file is recorded skipped_empty and neither chunking
\* nor upsert is invoked; when the text is usable and chunking yields no
\* segment, the file is recorded skipped_no_chunks and no upsert is made.
C26_EmptyAndNoChunksSkipped ==
    [][\A f \in Files :
         Extracted(f) =>
           LET secs == ExtractText(FileType(f), disk[f].content)
               chunks == ChunkDocument(f, FileType(f), disk[f].content, secs)
               noUpsert == /\ \A i \in DOMAIN log'.calls :
                                log'.calls[i] # "upsert"
                           /\ points' \subseteq points
           IN /\ NothingButBlank(secs) =>
                   /\ log'.status = "skipped_empty"
                   /\ tracker'[f].error_message = MsgEmpty
                   /\ log'.exc = NoErr
                   /\ noUpsert
              /\ ~NothingButBlank(secs) /\ Len(chunks) = 0
                   /\ log'.exc # "ChunkError" =>
                   /\ log'.status = "skipped_no_chunks"
                   /\ tracker'[f].error_message = MsgNoChunks
                   /\ log'.exc = NoErr
                   /\ noUpsert]_vars

\* C26 witness: a text file holding only whitespace has just been recorded
\* skipped_empty without a store call, and a document whose text yields no
\* segment is recorded skipped_no_chunks.
C26_Witness ==
    \E f \in TxtFiles, g \in Files :
       /\ f # g
       /\ log.op = "ingest" /\ log.file = f /\ log.calls = <<>>
       /\ disk[f].exists /\ disk[f].content = "blank"
       /\ tracker[f] # NoRec /\ tracker[f].status = "skipped_empty"
       /\ disk[g].exists /\ disk[g].content = "nosplit"
       /\ tracker[g] # NoRec /\ tracker[g].status = "skipped_no_chunks"

\* The run on f that ended in this step called upload_chunks and the call
\* returned.
Uploaded(f) ==
    /\ PipelineEnds(f)
    /\ log'.calls # <<>> /\ log'.calls[Len(log'.calls)] = "upsert"
    /\ log'.exc = NoErr

\* C27: the segments are embedded and upserted by one batch call; the run
\* is recorded success exactly when the count that call reports equals the
\* number of segments (all of the document's points are then in the store),
\* and otherwise failed with the mismatch message naming the expected and
\* the reported count.
C27_SuccessIffCountsAgree ==
    [][\A f \in Files :
         Uploaded(f) =>
           LET c == disk[f].content
               n == Len(ChunkDocument(f, FileType(f), c,
                                      ExtractText(FileType(f), c)))
           IN /\ Cardinality({i \in DOMAIN log'.calls :
                                 log'.calls[i] = "upsert"}) = 1
              /\ n > 0
              /\ log'.status = "success" <=> log'.uploaded = n
              /\ log'.status = "success" =>
                   /\ tracker'[f].error_message = NoErr
                   /\ ChunkPoints(f, FileType(f), c) \subseteq points'
              /\ log'.status # "success" =>
                   /\ log'.status = "failed"
                   /\ tracker'[f].status = "failed"
                   /\ tracker'[f].error_message
                        = MsgMismatch(n, log'.uploaded)]_vars

\* C27 witness: of a document's two segments only one came back from the
\* embedding; the batch of one was upserted and the run is recorded failed
\* with "Expected 2, got 1".
C27_Witness ==
    \E f \in Files :
       /\ log.op = "ingest" /\ log.file = f
       /\ log.calls = <<"upsert">> /\ log.exc = NoErr
       /\ log.uploaded = 1
       /\ Cardinality(PointsOf(points, f)) = 1
       /\ tracker[f] # NoRec /\ tracker[f].status = "failed"
       /\ tracker[f].error_message = MsgMismatch(2, 1)

\* C28: in every reachable state of the tracker, a record carries an error
\* detail exactly when its status is not success, whichever branch of the
\* pipeline or interruption left it.
C28_ErrorDetailIffNotSuccess ==
    \A f \in Files :
       tracker[f] # NoRec =>
          (tracker[f].error_message # NoErr <=> tracker[f].status # "success")

\* C29: whenever a scan comes to a file that exists and whose record has a
\* status other than success, it runs the file through the pipeline again
\* (should_ingest is true, the status is recorded anew), whether or not the
\* modification time has changed and however often the file was tried
\* before.
C29_NonSuccessRetriedEveryScan ==
    [][\A f \in Files :
         /\ Stepped(f)
         /\ disk[f].exists
         /\ tracker[f] # NoRec /\ tracker[f].status # "success"
         => /\ log'.op = "ingest" /\ log'.file = f
            /\ log'.si
            /\ log'.updates = 1
            /\ tracker'[f].status = log'.status]_vars

\* C29 witness: in the second scan since the files last changed, a file
\* without text was run through the pipeline again and recorded
\* skipped_empty again, its modification time being the recorded one.
C29_Witness ==
    \E f \in Files :
       /\ quiet = 2
       /\ log.op = "ingest" /\ log.file = f /\ log.si
       /\ log.status = "skipped_empty"
       /\ disk[f].exists /\ disk[f].content = "blank"
       /\ tracker[f].last_modified = disk[f].mtime
       /\ events = 1

\* The triple the identifier of a segment is built from.
Triple(ch) == <<ch.source_file, ch.page_number, ch.chunk_index>>

\* C30: within one ingestion pass of one document the segments produced by
\* chunk_document have pairwise distinct (source_file, page_number or
\* absent, chunk_index) triples, for documents of one section and of
\* several, so a pass with N segments upserts N distinct identifiers and
\* leaves N points of the document in the store.
C30_TriplesDistinctWithinPass ==
    [][\A f \in Files :
         (Stepped(f) /\ log'.op = "ingest") =>
           LET chunks == ChunksOf(f)
               ids == {PointId(chunks[i]) : i \in DOMAIN chunks}
           IN /\ \A i, j \in DOMAIN chunks :
                   i # j => /\ Triple(chunks[i]) # Triple(chunks[j])
                            /\ PointId(chunks[i]) # PointId(chunks[j])
              /\ Cardinality(ids) = Len(chunks)
              /\ log'.status = "success" =>
                   /\ log'.uploaded = Len(chunks)
                   /\ Cardinality({p \in points' : p.id \in ids})
                        = Len(chunks)]_vars

\* C30 witness: a PDF of several pages, two of them with two segments each,
\* has been ingested: its four points are in the store, two with chunk
\* index 0 on different pages.
C30_Witness ==
    \E f \in PdfFiles :
       /\ log.op = "ingest" /\ log.file = f /\ log.status = "success"
       /\ log.uploaded = 4
       /\ Cardinality(PointsOf(points, f)) = 4
       /\ \E p, q \in PointsOf(points, f) :
            /\ p.payload.chunk_index = 0 /\ q.payload.chunk_index = 0
            /\ p.payload.page_number = 1 /\ q.payload.page_number = 3

\* The file f was rewritten while its pipeline ran in this step.
ModifiedInPipeline(f) ==
    /\ Stepped(f) /\ log'.op = "ingest"
    /\ disk'[f] # disk[f]

\* C31: no modification is permanently missed: when a file is modified
\* while its own pipeline is running, after its text was extracted and
\* before update_file_status reads its modification time, should_ingest is
\* true for it afterwards, so the next scan ingests the new content.
C31_ModificationNotMissed ==
    [][\A f \in Files :
         ModifiedInPipeline(f) => ShouldIngest(disk'[f], tracker'[f])]_vars

\* C32: the identifier string source_file + "_" + (page number or nothing)
\* + "_" + chunk index is injective over triples: a triple that differs
\* from the one an identifier was built from, in the base name, in the page
\* number (present or absent) or in the chunk index, has another
\* identifier, also for base names that contain underscores and digits.
C32_IdentifierInjective ==
    ident.built =>
       \A n \in Names, p \in PageNumbers, j \in ChunkIndexes :
          UniqueChunkIdentifier(n, p, j) = ident.text
             => /\ n = ident.source_file
                /\ p = ident.page_number
                /\ j = ident.chunk_index

\* C32 witness: the identifier "a_1__2" was built for the base name "a_1"
\* without page and chunk index 2; the base name "a" with page 1 and chunk
\* index 2 gives "a_1_2".
C32_Witness ==
    /\ ident.built
    /\ ident.source_file = <<"a", "_", "1">>
    /\ ident.page_number = NoPage /\ ident.chunk_index = 2
    /\ ident.text = <<"a", "_", "1", "_", "_", "2">>
    /\ UniqueChunkIdentifier(<<"a">>, 1, 2) = <<"a", "_", "1", "_", "2">>

\* C33: whenever a document's record has status skipped_empty or
\* skipped_no_chunks, the store holds no point whose source is that
\* document, also when the document was ingested earlier and then changed
\* to one without text.
C33_SkippedHaveNoPoints ==
    \A f \in Files :
       (tracker[f] # NoRec
        /\ tracker[f].status \in {"skipped_empty", "skipped_no_chunks"})
          => PointsOf(points, f) = {}

====
